---- MODULE Spec2Model ----
(***************************************************************************)
(* ProcessOneAgentReleaseNotes                                             *)
(* (src/backend/services/process_oneagent_release_notes.py).               *)
(*                                                                         *)
(* One service instance holds the injected client handle                   *)
(* self.openai_client.  NumInvocations coroutines run                      *)
(* process_dynatrace_release_news on that instance; every step of one      *)
(* coroutine ends at a call of an external collaborator (prompt builder    *)
(* or completion client), and the coroutines interleave at those points.   *)
(*                                                                         *)
(* Python values are records tagged with their Python type:                *)
(*   str           [type |-> "str",   val   |-> sequence of characters]    *)
(*   dict          [type |-> "dict",  items |-> function key -> value]     *)
(*   pydantic obj  [type |-> "model", fields |-> function name -> value]   *)
(*   None          [type |-> "NoneType"]                                   *)
(*   JSONResponse  [type |-> "JSONResponse", status_code, content]         *)
(***************************************************************************)
EXTENDS Naturals, Sequences, FiniteSets, TLC

VARIABLES
    openai_client,             \* self.openai_client (shared by all invocations)
    injected_client,           \* the argument __init__ received
    pc,                        \* position of each invocation
    one_agent_latest_version,  \* local of process_dynatrace_release_news
    summary_result,            \* local of process_dynatrace_release_news
    oneagent_version_response, \* what the version lookup produced
    summary_response,          \* what the summary lookup produced
    calls,                     \* external calls issued by each invocation
    outcome                    \* how each invocation ended

vars == << openai_client, injected_client, pc, one_agent_latest_version,
           summary_result, oneagent_version_response, summary_response,
           calls, outcome >>

\* number of interleaved invocations on the one instance
NumInvocations == 2

Invocations == 1..NumInvocations

-----------------------------------------------------------------------------
\* Python values

None == [type |-> "NoneType"]

PyStr(s) == [type |-> "str", val |-> s]

PyDict(f) == [type |-> "dict", items |-> f]

PyModel(f) == [type |-> "model", fields |-> f]

\* the literal "error" of lines 40 and 44, character by character
ERROR_KEY == << "e", "r", "r", "o", "r" >>

\* the three fixed messages
MSG_NO_CLIENT == << "OpenAI API key not configured." >>

MSG_NO_VERSION == << "Failed to extract the latest OneAgent version." >>

MSG_NO_SUMMARY == << "Failed to get summary from OpenAI." >>

\* {"error": msg}
ErrorDict(msg) == PyDict([k \in {"error"} |-> PyStr(msg)])

\* JSONResponse(status_code=500, content=c)
JSONResponse500(c) == [type |-> "JSONResponse", status_code |-> 500, content |-> c]

-----------------------------------------------------------------------------
\* The environment: what the collaborators can hand back

\* version strings the completion client may put in the parsed record
V_24_5 == << "2", "4", ".", "5" >>

V_1_2_3 == << "1", ".", "2", ".", "3" >>

V_EMPTY == << >>

V_CAPITAL == << "E", "r", "r", "o", "r" >>

V_RC_ERROR == << "1", "-", "e", "r", "r", "o", "r" >>

Versions == { V_24_5, V_1_2_3, V_EMPTY, V_CAPITAL, V_RC_ERROR }

\* a latestVersion echo that matches no version
V_UNSET == << "u", "n", "s", "e", "t" >>

Summaries == { << "Improved X" >>, << "Fixed Y" >> }

\* faults a collaborator may raise: exception class and constructor args
Exception(cls, args) == [type |-> "exception", cls |-> cls, args |-> args]

Faults == { Exception("APIConnectionError", << << "Connection error." >> >>),
            Exception("RuntimeError", << >>) }

\* str(e) of an exception: the single argument, or '' without arguments
Str(e) == IF Len(e.args) = 0 THEN << >> ELSE e.args[1]

\* outcomes of a prompt builder call
PromptOutcomes == { [kind |-> "return"] } \cup
                  { [kind |-> "raise", exc |-> e] : e \in Faults }

\* no call was made yet
NoResponse == [kind |-> "pending"]

\* outcomes of responses.parse(..., text_format=ComponentLatestReleaseVersion)
VersionOutcomes ==
    { [kind |-> "raise", exc |-> e] : e \in Faults } \cup
    { [kind |-> "return", output_parsed |-> None] } \cup
    { [kind |-> "return",
       output_parsed |-> PyModel([f \in {"version"} |-> PyStr(v)])] : v \in Versions }

\* outcomes of responses.parse(..., text_format=ComponentLatestReleaseSummary)
\* for a prompt about version value `version`: the echo of the version is
\* empty, mismatched or equal
Echoes(version) ==
    { V_EMPTY, V_UNSET } \cup (IF version.type = "str" THEN { version.val } ELSE {})

SummaryOutcomes(version) ==
    { [kind |-> "raise", exc |-> e] : e \in Faults } \cup
    { [kind |-> "return", output_parsed |-> None] } \cup
    { [kind |-> "return",
       output_parsed |-> PyModel([f \in {"latestVersion", "summary"} |->
                                    IF f = "summary" THEN PyStr(s) ELSE PyStr(lv)])] :
        lv \in Echoes(version), s \in Summaries }

-----------------------------------------------------------------------------
\* The code

\* how a piece of code completes
Return(v) == [kind |-> "return", value |-> v]

Raise(e) == [kind |-> "raise", exc |-> e]

Running == [kind |-> "running"]

\* the handle passed to the constructor when an API key is configured
OpenAIClient == [type |-> "OpenAI"]

\* the client check left out
ClientMissingNever(client) == FALSE

\* `not self.openai_client`
ClientMissing(client) == client.type = "NoneType"

\* Python's substring test on str: needle in haystack
IsSubstring(needle, haystack) ==
    \E k \in 0..Len(haystack) :
        /\ k + Len(needle) <= Len(haystack)
        /\ SubSeq(haystack, k + 1, k + Len(needle)) = needle

\* the error check left out: every step-1 result is passed on
ContainsErrorNever(x) == "False"

\* `"error" in x`: key membership on a dict, substring test on a str,
\* iteration over (name, value) pairs on a pydantic object, TypeError on
\* anything that is no container
ContainsError(x) ==
    CASE x.type = "dict"  -> IF "error" \in DOMAIN x.items THEN "True" ELSE "False"
      [] x.type = "str"   -> IF IsSubstring(ERROR_KEY, x.val) THEN "True" ELSE "False"
      [] x.type = "model" -> "False"
      [] OTHER            -> "TypeError"

\* what `"error" in x` raises when x is no container
TypeError == Exception("TypeError", << << "argument is not iterable" >> >>)

\* no handler: the fault leaves the method
ExceptVersionReraise(e) == Raise(e)

\* the handler `except Exception as e: return {"error": str(e)}` of step 1
ExceptVersion(e) == Return(ErrorDict(Str(e)))

\* a handler that reports the fixed message instead of str(e)
ExceptSummaryFixed(e) == Return(ErrorDict(MSG_NO_SUMMARY))

\* the same handler of step 2
ExceptSummary(e) == Return(ErrorDict(Str(e)))

\* `if not self.openai_client: return {"error": ...}`
NoClientResult == Return(ErrorDict(MSG_NO_CLIENT))

\* get_oneagent_version_prompt() inside the try block of step 1
VersionPromptResult(built) ==
    IF built.kind = "raise" THEN ExceptVersion(built.exc) ELSE Running

\* the `result is None` test left out: result.version on None raises
\* AttributeError inside the try block
VersionLookupResultNoNoneTest(resp) ==
    IF resp.kind = "raise" THEN ExceptVersion(resp.exc)
    ELSE IF resp.output_parsed.type = "NoneType"
         THEN ExceptVersion(Exception("AttributeError",
                  << << "'NoneType' object has no attribute 'version'" >> >>))
         ELSE Return(resp.output_parsed.fields["version"])

\* what _oneagent_latest_version makes of the client's answer
VersionLookupResult(resp) ==
    IF resp.kind = "raise" THEN ExceptVersion(resp.exc)
    ELSE IF resp.output_parsed.type = "NoneType"
         THEN Return(ErrorDict(MSG_NO_VERSION))
         ELSE Return(resp.output_parsed.fields["version"])

\* get_oneagent_summary_prompt(version) inside the try block of step 2
SummaryPromptResult(built) ==
    IF built.kind = "raise" THEN ExceptSummary(built.exc) ELSE Running

\* the assignment left out: the client's echo is trusted
SetLatestVersionSkipped(result, version) == result

\* a fresh record holding latestVersion alone
SetLatestVersionOnly(result, version) ==
    PyModel([f \in {"latestVersion"} |-> version])

\* `result.latestVersion = version`
SetLatestVersion(result, version) ==
    PyModel([result.fields EXCEPT !["latestVersion"] = version])

\* what _get_oneagent_release_summary makes of the client's answer
SummaryLookupResult(resp, version) ==
    IF resp.kind = "raise" THEN ExceptSummary(resp.exc)
    ELSE IF resp.output_parsed.type = "NoneType"
         THEN Return(ErrorDict(MSG_NO_SUMMARY))
         ELSE Return(SetLatestVersion(resp.output_parsed, version))

\* the version read from a slot the invocations share
Step2ArgShared(self) == one_agent_latest_version[(self % NumInvocations) + 1]

\* the argument of self._get_oneagent_release_summary(...)
Step2Arg(self) == one_agent_latest_version[self]

\* evaluating self.openai_client.responses on the handle: an absent handle
\* has no attribute `responses`, a present one gives one of the outcomes
ParseOutcomes(client, outs) ==
    IF client.type = "NoneType"
    THEN { [kind |-> "raise",
            exc |-> Exception("AttributeError",
                     << << "'NoneType' object has no attribute 'responses'" >> >>)] }
    ELSE outs

\* the fault a collaborator's outcome carries, None when it returned
FaultOf(out) == IF out.kind = "raise" THEN out.exc ELSE None

\* one external call, as the collaborator sees it: its name, its argument
\* and the fault it raised (None when it returned)
Call(op, arg, fault) == [op |-> op, arg |-> arg, fault |-> fault]

-----------------------------------------------------------------------------
\* __init__: the handle is given or absent
Init ==
    /\ injected_client \in { None, OpenAIClient }
    /\ openai_client = injected_client
    /\ pc = [i \in Invocations |-> "start"]
    /\ one_agent_latest_version = [i \in Invocations |-> None]
    /\ summary_result = [i \in Invocations |-> None]
    /\ oneagent_version_response = [i \in Invocations |-> NoResponse]
    /\ summary_response = [i \in Invocations |-> NoResponse]
    /\ calls = [i \in Invocations |-> << >>]
    /\ outcome = [i \in Invocations |-> Running]

\* lines 39-41: step 1 completed with r; the result is bound to
\* one_agent_latest_version and tested for "error"
AfterStep1(self, r) ==
    IF r.kind = "raise"
    THEN /\ pc' = [pc EXCEPT ![self] = "done"]
         /\ outcome' = [outcome EXCEPT ![self] = r]
         /\ UNCHANGED one_agent_latest_version
    ELSE LET c == ContainsError(r.value) IN
         /\ one_agent_latest_version' =
                [one_agent_latest_version EXCEPT ![self] = r.value]
         /\ CASE c = "True" ->
                   /\ pc' = [pc EXCEPT ![self] = "done"]
                   /\ outcome' = [outcome EXCEPT ![self] =
                                     Return(JSONResponse500(r.value))]
              [] c = "False" ->
                   /\ pc' = [pc EXCEPT ![self] = "summary_prompt"]
                   /\ UNCHANGED outcome
              [] OTHER ->
                   /\ pc' = [pc EXCEPT ![self] = "done"]
                   /\ outcome' = [outcome EXCEPT ![self] = Raise(TypeError)]

\* lines 43-47: step 2 completed with r; the result is bound to
\* summary_result, tested for "error" and returned
AfterStep2(self, r) ==
    /\ pc' = [pc EXCEPT ![self] = "done"]
    /\ IF r.kind = "raise"
       THEN /\ outcome' = [outcome EXCEPT ![self] = r]
            /\ UNCHANGED summary_result
       ELSE LET c == ContainsError(r.value) IN
            /\ summary_result' = [summary_result EXCEPT ![self] = r.value]
            /\ outcome' = [outcome EXCEPT ![self] =
                   CASE c = "True"  -> Return(JSONResponse500(r.value))
                     [] c = "False" -> Return(r.value)
                     [] OTHER       -> Raise(TypeError)]

\* process_dynatrace_release_news up to the client check of step 1
Start(self) ==
    /\ pc[self] = "start"
    /\ IF ClientMissing(openai_client)
       THEN AfterStep1(self, NoClientResult)
       ELSE /\ pc' = [pc EXCEPT ![self] = "version_prompt"]
            /\ UNCHANGED << one_agent_latest_version, outcome >>
    /\ UNCHANGED << openai_client, injected_client, summary_result,
                    oneagent_version_response, summary_response, calls >>

\* get_oneagent_version_prompt()
VersionPrompt(self) ==
    /\ pc[self] = "version_prompt"
    /\ \E built \in PromptOutcomes :
         LET r == VersionPromptResult(built) IN
         /\ IF r.kind = "running"
            THEN /\ pc' = [pc EXCEPT ![self] = "version_parse"]
                 /\ UNCHANGED << one_agent_latest_version, outcome >>
            ELSE AfterStep1(self, r)
         /\ calls' = [calls EXCEPT ![self] =
                Append(@, Call("get_oneagent_version_prompt", None, FaultOf(built)))]
    /\ UNCHANGED << openai_client, injected_client, summary_result,
                    oneagent_version_response, summary_response >>

\* self.openai_client.responses.parse(...) of step 1, the rest of
\* _oneagent_latest_version and the test of its result
VersionParse(self) ==
    /\ pc[self] = "version_parse"
    /\ \E resp \in ParseOutcomes(openai_client, VersionOutcomes) :
         /\ oneagent_version_response' =
                [oneagent_version_response EXCEPT ![self] = resp]
         /\ AfterStep1(self, VersionLookupResult(resp))
         /\ calls' = [calls EXCEPT ![self] =
                Append(@, Call("version_parse", None, FaultOf(resp)))]
    /\ UNCHANGED << openai_client, injected_client, summary_result,
                    summary_response >>

\* get_oneagent_summary_prompt(version)
SummaryPrompt(self) ==
    /\ pc[self] = "summary_prompt"
    /\ \E built \in PromptOutcomes :
         LET r == SummaryPromptResult(built) IN
         /\ IF r.kind = "running"
            THEN /\ pc' = [pc EXCEPT ![self] = "summary_parse"]
                 /\ UNCHANGED << summary_result, outcome >>
            ELSE AfterStep2(self, r)
         /\ calls' = [calls EXCEPT ![self] =
                Append(@, Call("get_oneagent_summary_prompt", Step2Arg(self),
                               FaultOf(built)))]
    /\ UNCHANGED << openai_client, injected_client, one_agent_latest_version,
                    oneagent_version_response, summary_response >>

\* self.openai_client.responses.parse(...) of step 2, the rest of
\* _get_oneagent_release_summary, the test of its result and the return
SummaryParse(self) ==
    /\ pc[self] = "summary_parse"
    /\ \E resp \in ParseOutcomes(openai_client, SummaryOutcomes(Step2Arg(self))) :
         /\ summary_response' = [summary_response EXCEPT ![self] = resp]
         /\ AfterStep2(self, SummaryLookupResult(resp, Step2Arg(self)))
         /\ calls' = [calls EXCEPT ![self] =
                Append(@, Call("summary_parse", Step2Arg(self), FaultOf(resp)))]
    /\ UNCHANGED << openai_client, injected_client, one_agent_latest_version,
                    oneagent_version_response >>

Next ==
    \E self \in Invocations :
        \/ Start(self)
        \/ VersionPrompt(self)
        \/ VersionParse(self)
        \/ SummaryPrompt(self)
        \/ SummaryParse(self)

Spec == Init /\ [][Next]_vars

-----------------------------------------------------------------------------
\* Vocabulary of the properties

Done(i) == pc[i] = "done"

Returned(i) == Done(i) /\ outcome[i].kind = "return"

\* the invocation returned something that is no 500 response
IsSuccess(i) == Returned(i) /\ outcome[i].value.type # "JSONResponse"

\* the failure value carrying message msg
Failure(msg) == Return(JSONResponse500(ErrorDict(msg)))

\* the version lookup handed back a parsed record
VersionParsed(i) ==
    /\ oneagent_version_response[i].kind = "return"
    /\ oneagent_version_response[i].output_parsed.type = "model"

\* the version string of that record
ReturnedVersion(i) == oneagent_version_response[i].output_parsed.fields["version"]

\* the summary lookup handed back a parsed record
SummaryParsed(i) ==
    /\ summary_response[i].kind = "return"
    /\ summary_response[i].output_parsed.type = "model"

\* positions of the calls of collaborator op in the trace of invocation i
CallsOf(i, op) == { k \in DOMAIN calls[i] : calls[i][k].op = op }

NoClient == injected_client.type = "NoneType"

-----------------------------------------------------------------------------
\* C1: a success payload's latestVersion is the version string step 1
\* returned, and that string is the argument get_oneagent_summary_prompt
\* received, whatever latestVersion the client put in the parsed summary.
C1_LatestVersionIsPromptVersion ==
    \A i \in Invocations :
        IsSuccess(i) =>
            /\ VersionParsed(i)
            /\ outcome[i].value.type = "model"
            /\ outcome[i].value.fields["latestVersion"] = ReturnedVersion(i)
            /\ \E k \in CallsOf(i, "get_oneagent_summary_prompt") :
                   calls[i][k].arg = ReturnedVersion(i)

\* version "1.2.3", the client echoes "" and the payload says "1.2.3"
C1_Witness ==
    \E i \in Invocations :
        /\ IsSuccess(i)
        /\ ReturnedVersion(i) = PyStr(V_1_2_3)
        /\ summary_response[i].output_parsed.fields["latestVersion"] = PyStr(V_EMPTY)
        /\ outcome[i].value.fields["latestVersion"] = PyStr(V_1_2_3)

\* C2: every returned value is either a 500 response whose body is a record
\* with the single key `error` holding a string, or a payload without an
\* `error` key.
C2_TwoShapes ==
    \A i \in Invocations :
        Returned(i) =>
            LET v == outcome[i].value IN
            \/ /\ v.type = "JSONResponse"
               /\ v.status_code = 500
               /\ v.content.type = "dict"
               /\ DOMAIN v.content.items = {"error"}
               /\ v.content.items["error"].type = "str"
            \/ /\ v.type = "model"
               /\ "error" \notin DOMAIN v.fields

\* C3: one invocation issues at most one version call and at most one
\* summary call; a summary call comes only after a version call that
\* returned a parsed record; without a client, or when the version lookup
\* raised or returned no parsed record, there is no summary call; a call
\* that raised is the last call of the invocation.
C3_CallDiscipline ==
    \A i \in Invocations :
        /\ Cardinality(CallsOf(i, "version_parse")) <= 1
        /\ Cardinality(CallsOf(i, "summary_parse")) <= 1
        /\ \A k \in CallsOf(i, "summary_parse") :
               /\ \E j \in CallsOf(i, "version_parse") : j < k
               /\ VersionParsed(i)
        /\ ( \/ NoClient
             \/ oneagent_version_response[i].kind = "raise"
             \/ /\ oneagent_version_response[i].kind = "return"
                /\ oneagent_version_response[i].output_parsed.type = "NoneType" )
           => CallsOf(i, "summary_parse") = {}
        /\ \A k \in DOMAIN calls[i] :
               calls[i][k].fault.type = "exception" => k = Len(calls[i])

\* one invocation made both lookups, another stopped at a raising version
\* lookup
C3_Witness ==
    \E i, j \in Invocations :
        /\ Done(i)
        /\ CallsOf(i, "version_parse") = {2}
        /\ CallsOf(i, "summary_parse") = {4}
        /\ Done(j)
        /\ oneagent_version_response[j].kind = "raise"
        /\ Len(calls[j]) = 2

\* C4: when the version lookup returned a parsed record with version v, the
\* invocation enters step 2 with exactly v, for every string v; it ends
\* without step 2 only when step 1 produced an error record.
C4_ParsedVersionReachesStep2 ==
    \A i \in Invocations :
        Done(i) =>
            /\ VersionParsed(i) =>
                   \E k \in CallsOf(i, "get_oneagent_summary_prompt") :
                       calls[i][k].arg = ReturnedVersion(i)
            /\ CallsOf(i, "get_oneagent_summary_prompt") = {} =>
                   /\ one_agent_latest_version[i].type = "dict"
                   /\ "error" \in DOMAIN one_agent_latest_version[i].items

\* C5: without a client handle the invocation calls no collaborator and
\* returns the failure "OpenAI API key not configured."
C5_NoClientNoCalls ==
    NoClient =>
        \A i \in Invocations :
            /\ calls[i] = << >>
            /\ Done(i) => outcome[i] = Failure(MSG_NO_CLIENT)

C5_Witness ==
    /\ NoClient
    /\ \E i \in Invocations : Done(i) /\ outcome[i] = Failure(MSG_NO_CLIENT)

\* C6: when a lookup raised a fault, the invocation returns the failure
\* whose message is str() of that fault.
C6_FaultMessage ==
    \A i \in Invocations :
        Done(i) =>
            \A k \in DOMAIN calls[i] :
                calls[i][k].fault.type = "exception" =>
                    outcome[i] = Failure(Str(calls[i][k].fault))

\* the version lookup succeeded, the summary lookup raised "Connection
\* error." and that is the message returned
C6_Witness ==
    \E i \in Invocations :
        /\ Done(i)
        /\ VersionParsed(i)
        /\ summary_response[i].kind = "raise"
        /\ summary_response[i].exc.cls = "APIConnectionError"
        /\ outcome[i] = Failure(<< "Connection error." >>)

\* C7: a lookup that returned no parsed record gives the fixed message of
\* its step, and an empty version lookup is followed by no step-2 call.
C7_FixedMessages ==
    \A i \in Invocations :
        Done(i) =>
            /\ ( /\ oneagent_version_response[i].kind = "return"
                 /\ oneagent_version_response[i].output_parsed.type = "NoneType" )
               => /\ outcome[i] = Failure(MSG_NO_VERSION)
                  /\ CallsOf(i, "get_oneagent_summary_prompt") = {}
                  /\ CallsOf(i, "summary_parse") = {}
            /\ ( /\ summary_response[i].kind = "return"
                 /\ summary_response[i].output_parsed.type = "NoneType" )
               => outcome[i] = Failure(MSG_NO_SUMMARY)

C7_Witness ==
    \E i, j \in Invocations :
        /\ Done(i)
        /\ oneagent_version_response[i].kind = "return"
        /\ oneagent_version_response[i].output_parsed.type = "NoneType"
        /\ Done(j)
        /\ summary_response[j].kind = "return"
        /\ summary_response[j].output_parsed.type = "NoneType"

\* C8: no invocation ends by raising: whatever the collaborators do, a
\* finished invocation has returned a value.
C8_NeverRaises ==
    \A i \in Invocations :
        /\ outcome[i].kind # "raise"
        /\ Done(i) => outcome[i].kind = "return"

\* one invocation returned although its version lookup raised, another
\* returned after the error check on a parsed version string and a raising
\* summary prompt builder
C8_Witness ==
    \E i, j \in Invocations :
        /\ Returned(i)
        /\ oneagent_version_response[i].kind = "raise"
        /\ Returned(j)
        /\ VersionParsed(j)
        /\ \E k \in CallsOf(j, "get_oneagent_summary_prompt") :
               calls[j][k].fault.type = "exception"

\* C9: a success payload is the parsed summary record with only
\* latestVersion changed: same fields, same values elsewhere.
C9_OnlyLatestVersionChanges ==
    \A i \in Invocations :
        IsSuccess(i) =>
            /\ SummaryParsed(i)
            /\ outcome[i].value.type = "model"
            /\ DOMAIN outcome[i].value.fields =
                   DOMAIN summary_response[i].output_parsed.fields
            /\ \A f \in DOMAIN outcome[i].value.fields \ {"latestVersion"} :
                   outcome[i].value.fields[f] =
                       summary_response[i].output_parsed.fields[f]

\* {version: "24.5"}, then {summary: "Improved X", latestVersion: "unset"}
\* gives {summary: "Improved X", latestVersion: "24.5"}
C9_Witness ==
    \E i \in Invocations :
        /\ IsSuccess(i)
        /\ ReturnedVersion(i) = PyStr(V_24_5)
        /\ summary_response[i].output_parsed.fields["latestVersion"] = PyStr(V_UNSET)
        /\ summary_response[i].output_parsed.fields["summary"] = PyStr(<< "Improved X" >>)
        /\ outcome[i].value.fields["summary"] = PyStr(<< "Improved X" >>)
        /\ outcome[i].value.fields["latestVersion"] = PyStr(V_24_5)

\* C10: with invocations interleaved on one instance the client handle
\* stays the injected one, a success payload carries the version of the
\* same invocation's step 1, and invocations whose own lookups went the
\* same way end the same way.
C10_InvocationsIndependent ==
    /\ openai_client = injected_client
    /\ \A i \in Invocations :
           IsSuccess(i) =>
               /\ VersionParsed(i)
               /\ outcome[i].value.type = "model"
               /\ outcome[i].value.fields["latestVersion"] = ReturnedVersion(i)
    /\ \A i, j \in Invocations :
           ( /\ Done(i)
             /\ Done(j)
             /\ calls[i] = calls[j]
             /\ oneagent_version_response[i] = oneagent_version_response[j]
             /\ summary_response[i] = summary_response[j] )
           => outcome[i] = outcome[j]

\* one invocation has returned "24.5" while another, holding version
\* "1.2.3", is suspended at its summary call
C10_Witness ==
    \E i, j \in Invocations :
        /\ IsSuccess(i)
        /\ outcome[i].value.fields["latestVersion"] = PyStr(V_24_5)
        /\ pc[j] = "summary_parse"
        /\ one_agent_latest_version[j] = PyStr(V_1_2_3)

====
